---- MODULE Spec2Model ----
(***************************************************************************)
(* Doctor availability and appointment booking of the secre_api backend.   *)
(*                                                                         *)
(* Time is counted in ticks of 15 minutes from Monday 00:00 UTC of the     *)
(* modelled week: an instant is a natural number, a time of day is a       *)
(* number in 0..TicksPerDay-1, a date is a day number (day 0 is a Monday). *)
(* All timestamps are UTC instants; payload fields the scheduling code     *)
(* never reads (patient, modality, comment, custom_fields, timestamps)     *)
(* are left out of the rows.                                               *)
(***************************************************************************)
EXTENDS Integers, Sequences, FiniteSets, TLC

VARIABLES
    availabilities,   \* rows of table doctor_availability
    blocked_times,    \* rows of table doctor_blocked_time
    appointments,     \* rows of table appointment
    next_id,          \* next primary key per table
    created,          \* history: the appointment rows written by POST /appointments
    patch,            \* per request slot: a PATCH /appointments/{id} between its read and its commit
    resp,             \* the response of the last request
    api_keys,         \* rows of table api_key
    tenant_rows,      \* rows of table tenant
    row_security,     \* whether the role the application connects with is subject to row-level security
    patients,         \* rows of table patient
    creating          \* per request slot: a POST /patients between its duplicate check and its commit

vars == <<availabilities, blocked_times, appointments, next_id, created, patch, resp,
          api_keys, tenant_rows, row_security, patients, creating>>

\* the tables and request slots the scheduling endpoints never touch
accounts == <<api_keys, tenant_rows, row_security, patients, creating>>

-----------------------------------------------------------------------------
(* Bounds of the model *)

MaxWindows == 2
MaxBlocked == 2
MaxAppts == 2
MaxStored == 2
NumProcs == 2
MaxTick == 4
MaxKeys == 3
MaxPatients == 3

-----------------------------------------------------------------------------
(* Time arithmetic (python datetime) *)

TicksPerDay == 96

\* hh:mm as a time of day in ticks
T(h, m) == h * 4 + (m \div 15)

\* datetime.combine(date, time)
Combine(date, tod) == date * TicksPerDay + tod

\* datetime.date(), datetime.time(), datetime.weekday()
DateOf(dt) == dt \div TicksPerDay
TimeOf(dt) == dt % TicksPerDay
Weekday(dt) == DateOf(dt) % 7

Monday == 0
Tuesday == 1

\* appointment_state lookup ids
SCHEDULED == 1
CANCELLED == 5

Tenants == {"tA", "tB"}
DocType == 1

-----------------------------------------------------------------------------
(* The interval test both queries use *)

OverlapsLeftClosed(a_start, a_end, b_start, b_end) ==
    a_start < b_end /\ a_end >= b_start

OverlapsTouching(a_start, a_end, b_start, b_end) ==
    a_start <= b_end /\ a_end >= b_start

Overlaps(a_start, a_end, b_start, b_end) ==
    a_start < b_end /\ a_end > b_start

-----------------------------------------------------------------------------
(* get_available_time_slots *)

SameDoctorAnyTenant(r, tenant_id, doc_type, doc_number) ==
    /\ r.doctor_document_type_id = doc_type
    /\ r.doctor_document_number = doc_number

\* the tenant and doctor conditions every SELECT of the two queries carries
SameDoctor(r, tenant_id, doc_type, doc_number) ==
    /\ r.tenant_id = tenant_id
    /\ r.doctor_document_type_id = doc_type
    /\ r.doctor_document_number = doc_number

\* the SELECT without its is_active == True condition
AvailabilityRowsInactiveToo(avs, tenant_id, doc_type, doc_number, day_of_week) ==
    {w \in avs : /\ SameDoctor(w, tenant_id, doc_type, doc_number)
                 /\ w.day_of_week = day_of_week}

\* the availability SELECT of both queries
AvailabilityRows(avs, tenant_id, doc_type, doc_number, day_of_week) ==
    {w \in avs : /\ SameDoctor(w, tenant_id, doc_type, doc_number)
                 /\ w.day_of_week = day_of_week
                 /\ w.is_active}

\* .order_by(start_time): every order of the rows the sort key allows
OrderByStartTime(rows) ==
    {s \in [1..Cardinality(rows) -> rows] :
        /\ \A i, j \in DOMAIN s : i # j => s[i] # s[j]
        /\ \A i, j \in DOMAIN s : i < j => s[i].start_time <= s[j].start_time}

\* the blocked-time SELECT of get_available_time_slots
BlockedRowsOfDay(bts, tenant_id, doc_type, doc_number, start_of_day, end_of_day) ==
    {b \in bts : /\ SameDoctor(b, tenant_id, doc_type, doc_number)
                 /\ b.is_active
                 /\ b.start_datetime < end_of_day
                 /\ b.end_datetime > start_of_day}

\* the appointment SELECT of get_available_time_slots
AppointmentRowsOfDay(aps, tenant_id, doc_type, doc_number, start_of_day, end_of_day) ==
    {a \in aps : /\ SameDoctor(a, tenant_id, doc_type, doc_number)
                 /\ a.start_utc >= start_of_day
                 /\ a.start_utc < end_of_day}

\* one candidate slot with its flag
TimeSlot(current_time, slot_end, doc_type, doc_number, blocked, booked) ==
    LET is_blocked == \E bt \in blocked :
                         Overlaps(current_time, slot_end, bt.start_datetime, bt.end_datetime)
        is_booked  == \E ap \in booked :
                         Overlaps(current_time, slot_end, ap.start_utc, ap.end_utc)
    IN  [start_datetime |-> current_time,
         end_datetime |-> slot_end,
         doctor_document_type_id |-> doc_type,
         doctor_document_number |-> doc_number,
         available |-> ~(is_blocked \/ is_booked)]

LoopGuardOvershoot(current_time, duration, end_time) == current_time < end_time

LoopGuardStrict(current_time, duration, end_time) == current_time + duration < end_time

\* the condition of the while loop
LoopGuard(current_time, duration, end_time) == current_time + duration <= end_time

RECURSIVE WindowSlots(_, _, _, _, _, _, _)
\* the while loop over one availability row, from current_time on
WindowSlots(current_time, end_time, duration, doc_type, doc_number, blocked, booked) ==
    IF LoopGuard(current_time, duration, end_time)
    THEN <<TimeSlot(current_time, current_time + duration, doc_type, doc_number, blocked, booked)>>
         \o WindowSlots(current_time + duration, end_time, duration,
                        doc_type, doc_number, blocked, booked)
    ELSE << >>

RECURSIVE SlotOrigins(_, _, _)
\* for each emitted slot, the position in availability_records of the row
\* whose loop iteration appended it
SlotOrigins(availability_records, date, k) ==
    IF availability_records = << >> THEN << >>
    ELSE LET availability == Head(availability_records)
             n == Len(WindowSlots(Combine(date, availability.start_time),
                                  Combine(date, availability.end_time),
                                  availability.appointment_duration,
                                  DocType, "", {}, {}))
         IN  [i \in 1..n |-> k] \o SlotOrigins(Tail(availability_records), date, k + 1)

RECURSIVE GenerateSlots(_, _, _, _, _, _)
\* the for loop over the availability rows, in the order they were loaded
GenerateSlots(availability_records, date, doc_type, doc_number, blocked, booked) ==
    IF availability_records = << >> THEN << >>
    ELSE LET availability == Head(availability_records)
         IN  WindowSlots(Combine(date, availability.start_time),
                         Combine(date, availability.end_time),
                         availability.appointment_duration,
                         doc_type, doc_number, blocked, booked)
             \o GenerateSlots(Tail(availability_records), date,
                              doc_type, doc_number, blocked, booked)

\* get_available_time_slots for the rows loaded in the order availability_records
SlotsFor(availability_records, bts, aps, tenant_id, doc_type, doc_number, date) ==
    LET start_of_day == Combine(date, 0)
        end_of_day   == start_of_day + TicksPerDay
        blocked == BlockedRowsOfDay(bts, tenant_id, doc_type, doc_number,
                                    start_of_day, end_of_day)
        booked  == AppointmentRowsOfDay(aps, tenant_id, doc_type, doc_number,
                                        start_of_day, end_of_day)
    IN  GenerateSlots(availability_records, date, doc_type, doc_number, blocked, booked)

-----------------------------------------------------------------------------
(* is_time_available *)

\* Result.scalar_one_or_none(): the row, no row, or MultipleResultsFound
ScalarOneOrNone(rows) ==
    IF rows = {} THEN "none"
    ELSE IF Cardinality(rows) = 1 THEN "one"
    ELSE "MultipleResultsFound"

\* the blocked-time SELECT of is_time_available
BlockedRowsOverlapping(bts, tenant_id, doc_type, doc_number, start_datetime, end_datetime) ==
    {b \in bts : /\ SameDoctor(b, tenant_id, doc_type, doc_number)
                 /\ b.is_active
                 /\ Overlaps(b.start_datetime, b.end_datetime, start_datetime, end_datetime)}

\* the appointment SELECT of is_time_available
AppointmentRowsOverlapping(aps, tenant_id, doc_type, doc_number, start_datetime, end_datetime) ==
    {a \in aps : /\ SameDoctor(a, tenant_id, doc_type, doc_number)
                 /\ Overlaps(a.start_utc, a.end_utc, start_datetime, end_datetime)}

\* the range is tested against the end of the window only
OutsideWorkingHoursEndOnly(availability, start_datetime, end_datetime) ==
    TimeOf(end_datetime) > availability.end_time

\* start_time < availability.start_time or end_time > availability.end_time,
\* on the times of day of the two datetimes
OutsideWorkingHours(availability, start_datetime, end_datetime) ==
    \/ TimeOf(start_datetime) < availability.start_time
    \/ TimeOf(end_datetime) > availability.end_time

\* "True", "False", or the exception the call ends with
IsTimeAvailable(avs, bts, aps, tenant_id, doc_type, doc_number, start_datetime, end_datetime) ==
    LET rows    == AvailabilityRows(avs, tenant_id, doc_type, doc_number,
                                    Weekday(start_datetime))
        blocked == BlockedRowsOverlapping(bts, tenant_id, doc_type, doc_number,
                                          start_datetime, end_datetime)
        booked  == AppointmentRowsOverlapping(aps, tenant_id, doc_type, doc_number,
                                              start_datetime, end_datetime)
    IN  IF ScalarOneOrNone(rows) = "MultipleResultsFound" THEN "MultipleResultsFound"
        ELSE IF ScalarOneOrNone(rows) = "none" THEN "False"
        ELSE LET availability == CHOOSE w \in rows : TRUE
             IN  IF OutsideWorkingHours(availability, start_datetime, end_datetime)
                 THEN "False"
                 ELSE IF ScalarOneOrNone(blocked) = "MultipleResultsFound"
                      THEN "MultipleResultsFound"
                 ELSE IF ScalarOneOrNone(blocked) = "one" THEN "False"
                 ELSE IF ScalarOneOrNone(booked) = "MultipleResultsFound"
                      THEN "MultipleResultsFound"
                 ELSE IF ScalarOneOrNone(booked) = "one" THEN "False"
                 ELSE "True"

-----------------------------------------------------------------------------
(* The two read endpoints, applied to a stored configuration *)

NoResponse ==
    [op |-> "none", tenant_id |-> "", doctor_document_number |-> "",
     date |-> 0, start_datetime |-> 0, end_datetime |-> 0,
     availability_records |-> << >>, slot_origin |-> << >>,
     time_slots |-> << >>, available |-> "",
     other_start |-> 0, other_end |-> 0, overlaps |-> FALSE,
     id |-> 0, status |-> 0, api_key |-> "", session |-> "", field |-> ""]

\* the response body of the slot listing, built from the loaded windows
TimeSlotsResponse(tenant_id, doc_number, date, availability_records) ==
    [NoResponse EXCEPT
       !.op = "get_available_time_slots",
       !.tenant_id = tenant_id,
       !.doctor_document_number = doc_number,
       !.date = date,
       !.availability_records = availability_records,
       !.slot_origin = SlotOrigins(availability_records, date, 1),
       !.time_slots =
           IF availability_records = << >> THEN << >>
           ELSE SlotsFor(availability_records, blocked_times, appointments,
                         tenant_id, DocType, doc_number, date)]

\* GET /doctor-availability/time-slots/{type}/{number}?date=
get_available_time_slots(tenant_id, doc_number, date) ==
    LET rows == AvailabilityRows(availabilities, tenant_id, DocType, doc_number,
                                 Weekday(Combine(date, 0)))
    IN  /\ \E availability_records \in OrderByStartTime(rows) :
              resp' = TimeSlotsResponse(tenant_id, doc_number, date, availability_records)
        /\ UNCHANGED <<availabilities, blocked_times, appointments, next_id, created, patch, accounts>>

\* the response body of the availability check
CheckResponse(tenant_id, doc_number, start_dt, end_dt) ==
    [NoResponse EXCEPT
       !.op = "is_time_available",
       !.tenant_id = tenant_id,
       !.doctor_document_number = doc_number,
       !.start_datetime = start_dt,
       !.end_datetime = end_dt,
       !.available = IsTimeAvailable(availabilities, blocked_times, appointments,
                                     tenant_id, DocType, doc_number, start_dt, end_dt)]

\* the check holds the range it found free by storing a blocked interval
check_time_availability_reserving(tenant_id, doc_number, start_dt, end_dt) ==
    LET answer == IsTimeAvailable(availabilities, blocked_times, appointments,
                                  tenant_id, DocType, doc_number, start_dt, end_dt)
    IN  /\ resp' = [NoResponse EXCEPT
                      !.op = "is_time_available",
                      !.tenant_id = tenant_id,
                      !.doctor_document_number = doc_number,
                      !.start_datetime = start_dt,
                      !.end_datetime = end_dt,
                      !.available = answer]
        /\ blocked_times' =
              IF answer = "True"
              THEN blocked_times \cup
                     {[id |-> next_id.blocked_time, tenant_id |-> tenant_id,
                       doctor_document_type_id |-> DocType,
                       doctor_document_number |-> doc_number,
                       start_datetime |-> start_dt, end_datetime |-> end_dt,
                       is_active |-> TRUE]}
              ELSE blocked_times
        /\ UNCHANGED <<availabilities, appointments, next_id, created, patch, accounts>>

\* GET /doctor-availability/check-availability/{type}/{number}?start_datetime=&end_datetime=
check_time_availability(tenant_id, doc_number, start_dt, end_dt) ==
    /\ resp' = CheckResponse(tenant_id, doc_number, start_dt, end_dt)
    /\ UNCHANGED <<availabilities, blocked_times, appointments, next_id, created, patch, accounts>>

-----------------------------------------------------------------------------
(* Stored configurations the queries are applied to *)

Window(tenant_id, doc_number, day_of_week, start_time, end_time, duration, is_active) ==
    [tenant_id |-> tenant_id, doctor_document_type_id |-> DocType,
     doctor_document_number |-> doc_number, day_of_week |-> day_of_week,
     start_time |-> start_time, end_time |-> end_time,
     appointment_duration |-> duration, is_active |-> is_active]

Blocked(tenant_id, doc_number, start_datetime, end_datetime, is_active) ==
    [tenant_id |-> tenant_id, doctor_document_type_id |-> DocType,
     doctor_document_number |-> doc_number,
     start_datetime |-> start_datetime, end_datetime |-> end_datetime,
     is_active |-> is_active]

Appt(tenant_id, doc_number, start_utc, end_utc, state_id) ==
    [tenant_id |-> tenant_id, doctor_document_type_id |-> DocType,
     doctor_document_number |-> doc_number,
     start_utc |-> start_utc, end_utc |-> end_utc, state_id |-> state_id]

WindowChoices ==
    << Window("tA", "D1", Monday, T(9, 0), T(11, 0), 2, TRUE),
       Window("tA", "D1", Monday, T(10, 0), T(11, 45), 3, TRUE),
       Window("tA", "D1", Tuesday, T(0, 0), T(1, 0), 2, TRUE),
       Window("tA", "D1", Monday, T(8, 0), T(9, 0), 2, FALSE),
       Window("tB", "D1", Monday, T(9, 0), T(11, 0), 2, TRUE),
       Window("tB", "D1", Tuesday, T(0, 0), T(1, 0), 1, TRUE),
       Window("tA", "D1", Monday, T(9, 0), T(10, 0), 4, TRUE) >>

BlockedChoices ==
    << Blocked("tA", "D1", Combine(0, T(9, 30)), Combine(0, T(10, 0)), TRUE),
       Blocked("tA", "D1", Combine(0, T(8, 0)), Combine(0, T(9, 0)), TRUE),
       Blocked("tA", "D1", Combine(0, T(23, 30)), Combine(1, T(0, 30)), TRUE),
       Blocked("tA", "D1", Combine(0, T(10, 0)), Combine(0, T(10, 30)), FALSE),
       Blocked("tB", "D1", Combine(0, T(9, 0)), Combine(0, T(11, 0)), TRUE),
       Blocked("tA", "D2", Combine(0, T(9, 0)), Combine(0, T(9, 30)), TRUE) >>

ApptChoices ==
    << Appt("tA", "D1", Combine(0, T(10, 0)), Combine(0, T(10, 30)), SCHEDULED),
       Appt("tA", "D1", Combine(0, T(10, 30)), Combine(0, T(11, 0)), SCHEDULED),
       Appt("tA", "D1", Combine(0, T(23, 30)), Combine(1, T(0, 30)), SCHEDULED),
       Appt("tA", "D1", Combine(0, T(9, 0)), Combine(0, T(9, 30)), CANCELLED),
       Appt("tB", "D1", Combine(0, T(9, 0)), Combine(0, T(10, 0)), SCHEDULED),
       Appt("tA", "D2", Combine(0, T(10, 30)), Combine(0, T(11, 0)), SCHEDULED) >>

\* the ways to store at most max rows drawn from choices
Picks(choices, max) ==
    {f \in UNION {[1..k -> 1..Len(choices)] : k \in 0..max} :
        \A i, j \in DOMAIN f : i < j => f[i] < f[j]}

Rows(choices, f) == {[id |-> i] @@ choices[f[i]] : i \in DOMAIN f}

QueryDates == {0, 1}

QueryRanges ==
    { <<Combine(0, T(9, 0)), Combine(0, T(9, 30))>>,
      <<Combine(0, T(8, 30)), Combine(0, T(9, 0))>>,
      <<Combine(0, T(9, 30)), Combine(0, T(10, 0))>>,
      <<Combine(0, T(10, 0)), Combine(0, T(10, 30))>>,
      <<Combine(0, T(10, 30)), Combine(0, T(11, 0))>>,
      <<Combine(1, T(0, 0)), Combine(1, T(0, 30))>>,
      <<Combine(0, T(9, 0)), Combine(1, T(10, 0))>>,
      <<Combine(0, T(9, 30)), Combine(0, T(9, 0))>> }

IdleProcs == [p \in 1..NumProcs |-> [pc |-> "idle", id |-> 0, upd |-> << >>]]

-----------------------------------------------------------------------------
(* Tenants, API keys and patients as the first requests find them: one key   *)
(* per tenant, both tenants active, no patient                               *)

\* hashlib.sha256(api_key.encode()).hexdigest()
hash_api_key(api_key) == <<"sha256", api_key>>

KeyTokens == <<"k1", "k2", "k3", "k4", "k5", "k6">>

\* secrets.token_urlsafe(32): the n-th key handed out
generate_api_key(n) == KeyTokens[n]

ApiKey(id, api_key, tenant_id) ==
    [id |-> id, key_hash |-> hash_api_key(api_key), tenant_id |-> tenant_id,
     revoked_at |-> "None"]

IdleCreators ==
    [p \in 1..NumProcs |->
        [pc |-> "idle", tenant_id |-> "", document_type_id |-> 0, document_number |-> ""]]

InitAccounts ==
    /\ api_keys = {ApiKey(1, generate_api_key(1), "tA"), ApiKey(2, generate_api_key(2), "tB")}
    /\ tenant_rows = {[id |-> t, is_active |-> TRUE] : t \in Tenants}
    /\ row_security = FALSE
    /\ patients = {}
    /\ creating = IdleCreators

InitQuery ==
    \E fw \in Picks(WindowChoices, MaxWindows),
       fb \in Picks(BlockedChoices, MaxBlocked),
       fa \in Picks(ApptChoices, MaxAppts) :
        /\ availabilities = Rows(WindowChoices, fw)
        /\ blocked_times = Rows(BlockedChoices, fb)
        /\ appointments = Rows(ApptChoices, fa)
        /\ next_id = [availability |-> Len(fw) + 1, blocked_time |-> Len(fb) + 1,
                      appointment |-> Len(fa) + 1]
        /\ created = {}
        /\ patch = IdleProcs
        /\ resp = NoResponse
        /\ InitAccounts

NextQuery ==
    \/ \E t \in Tenants, d \in QueryDates : get_available_time_slots(t, "D1", d)
    \/ \E t \in Tenants, r \in QueryRanges : check_time_availability(t, "D1", r[1], r[2])

SpecQuery == InitQuery /\ [][NextQuery]_vars

-----------------------------------------------------------------------------
(* The interval test on its own, applied to two intervals given by their     *)
(* ends                                                                      *)

IntervalEnds == 0..MaxTick

InitOverlap ==
    /\ availabilities = {}
    /\ blocked_times = {}
    /\ appointments = {}
    /\ next_id = [availability |-> 1, blocked_time |-> 1, appointment |-> 1]
    /\ created = {}
    /\ patch = IdleProcs
    /\ resp = NoResponse
    /\ InitAccounts

\* current_time < bt.end_datetime and slot_end > bt.start_datetime
apply_overlaps(a_start, a_end, b_start, b_end) ==
    /\ resp' = [NoResponse EXCEPT
                  !.op = "overlaps",
                  !.start_datetime = a_start,
                  !.end_datetime = a_end,
                  !.other_start = b_start,
                  !.other_end = b_end,
                  !.overlaps = Overlaps(a_start, a_end, b_start, b_end)]
    /\ UNCHANGED <<availabilities, blocked_times, appointments, next_id, created, patch, accounts>>

NextOverlap ==
    \E a_start, a_end, b_start, b_end \in IntervalEnds :
        apply_overlaps(a_start, a_end, b_start, b_end)

SpecOverlap == InitOverlap /\ [][NextOverlap]_vars

-----------------------------------------------------------------------------
(* The appointment endpoints. Each request of an endpoint runs on the event  *)
(* loop and can be interleaved with other requests at its awaits: the read   *)
(* of the row and the commit of a PATCH are two steps, a POST has the commit *)
(* as its only database step.                                                *)

\* the window and the blocked interval a booking run starts with
BookingWindowChoices ==
    << Window("tA", "D1", Monday, T(9, 0), T(11, 0), 2, TRUE) >>

BookingBlockedChoices ==
    << Blocked("tA", "D1", Combine(0, T(9, 30)), Combine(0, T(10, 0)), TRUE) >>

\* bodies of POST /appointments/ with the tenant of the API key; the last
\* one is malformed (end before start)
PostBodies ==
    { Appt("tA", "D1", Combine(0, T(9, 0)), Combine(0, T(9, 30)), SCHEDULED),
      Appt("tA", "D1", Combine(0, T(9, 0)), Combine(0, T(10, 0)), SCHEDULED),
      Appt("tA", "D1", Combine(0, T(9, 0)), Combine(0, T(9, 30)), CANCELLED),
      Appt("tA", "D2", Combine(0, T(9, 0)), Combine(0, T(9, 30)), SCHEDULED),
      Appt("tB", "D1", Combine(0, T(9, 0)), Combine(0, T(9, 30)), SCHEDULED),
      Appt("tA", "D1", Combine(0, T(9, 30)), Combine(0, T(9, 0)), SCHEDULED) }

\* bodies of PATCH /appointments/{id}: the fields the request sets
PatchBodies ==
    { [start_utc |-> Combine(0, T(9, 15))],
      [end_utc |-> Combine(0, T(9, 15))],
      [start_utc |-> Combine(0, T(9, 0)), end_utc |-> Combine(0, T(10, 0)),
       doctor_document_number |-> "D1"] }

Init ==
    /\ availabilities = Rows(BookingWindowChoices, [i \in {1} |-> 1])
    /\ blocked_times = Rows(BookingBlockedChoices, [i \in {1} |-> 1])
    /\ appointments = {}
    /\ next_id = [availability |-> 2, blocked_time |-> 2, appointment |-> 1]
    /\ created = {}
    /\ patch = IdleProcs
    /\ resp = NoResponse
    /\ InitAccounts

\* POST /appointments/ (create_appointment_simple; AppointmentService.create_appointment
\* validates and inserts the same way)
create_appointment(tenant_id, doc_number, start_datetime, end_datetime, state_id) ==
    /\ next_id.appointment <= MaxStored
    /\ IF end_datetime <= start_datetime
       THEN \* 400 "End time must be after start time"
            UNCHANGED <<appointments, next_id, created>>
       ELSE LET appointment == [id |-> next_id.appointment]
                               @@ Appt(tenant_id, doc_number, start_datetime,
                                       end_datetime, state_id)
            IN  /\ appointments' = appointments \cup {appointment}
                /\ next_id' = [next_id EXCEPT !.appointment = @ + 1]
                /\ created' = created \cup
                      {[id |-> appointment.id,
                        tenant_id |-> tenant_id,
                        doctor_document_number |-> doc_number,
                        start_utc |-> start_datetime,
                        end_utc |-> end_datetime,
                        time_available |->
                            IsTimeAvailable(availabilities, blocked_times, appointments,
                                            tenant_id, DocType, doc_number,
                                            start_datetime, end_datetime)]}
    /\ UNCHANGED <<availabilities, blocked_times, patch, resp, accounts>>

\* the checks of update_appointment on the body against the row it has read
PatchBodyValid(existing_appointment, update_data) ==
    IF "start_utc" \in DOMAIN update_data /\ "end_utc" \in DOMAIN update_data
    THEN update_data.end_utc > update_data.start_utc
    ELSE IF "start_utc" \in DOMAIN update_data
    THEN update_data.start_utc < existing_appointment.end_utc
    ELSE IF "end_utc" \in DOMAIN update_data
    THEN update_data.end_utc > existing_appointment.start_utc
    ELSE TRUE

\* PATCH /appointments/{id}, up to its commit: get_appointment_by_id, 404 when
\* there is no row, 400 when the body fails the checks, else the attributes
\* are set on the loaded object
update_appointment_read(p, appointment_id, update_data) ==
    /\ patch[p].pc = "idle"
    /\ LET found == {a \in appointments : a.id = appointment_id}
       IN  IF found = {} \/ \E a \in found : ~PatchBodyValid(a, update_data)
           THEN UNCHANGED patch
           ELSE patch' = [patch EXCEPT ![p] = [pc |-> "loaded", id |-> appointment_id,
                                               upd |-> update_data]]
    /\ UNCHANGED <<availabilities, blocked_times, appointments, next_id, created, resp, accounts>>

\* the commit of the PATCH: an UPDATE of the columns the request set, on the
\* row with that id (no row is changed when it was deleted meanwhile)
update_appointment_commit(p) ==
    /\ patch[p].pc = "loaded"
    /\ appointments' =
          {IF a.id = patch[p].id
           THEN [f \in DOMAIN a |-> IF f \in DOMAIN patch[p].upd THEN patch[p].upd[f] ELSE a[f]]
           ELSE a : a \in appointments}
    /\ patch' = [patch EXCEPT ![p] = [pc |-> "idle", id |-> 0, upd |-> << >>]]
    /\ UNCHANGED <<availabilities, blocked_times, next_id, created, resp, accounts>>

\* DELETE /appointments/{id}
delete_appointment(appointment_id) ==
    /\ \E a \in appointments : a.id = appointment_id
    /\ appointments' = {a \in appointments : a.id # appointment_id}
    /\ UNCHANGED <<availabilities, blocked_times, next_id, created, patch, resp, accounts>>

Next ==
    \/ \E b \in PostBodies :
          create_appointment(b.tenant_id, b.doctor_document_number,
                             b.start_utc, b.end_utc, b.state_id)
    \/ \E p \in 1..NumProcs, id \in 1..MaxStored, u \in PatchBodies :
          update_appointment_read(p, id, u)
    \/ \E p \in 1..NumProcs : update_appointment_commit(p)
    \/ \E id \in 1..MaxStored : delete_appointment(id)

Spec == Init /\ [][Next]_vars

-----------------------------------------------------------------------------
(* Properties of the booking workflow, checked under Spec *)

Occupying(a) == a.state_id # CANCELLED

SameDoctorRows(a, b) ==
    /\ a.tenant_id = b.tenant_id
    /\ a.doctor_document_type_id = b.doctor_document_type_id
    /\ a.doctor_document_number = b.doctor_document_number

-----------------------------------------------------------------------------
(* The endpoints that manage the weekly windows and the blocked intervals:   *)
(* POST, PATCH and DELETE of /doctor-availability/availability and           *)
(* /doctor-availability/blocked-time. The caller's tenant comes from the API *)
(* key; a request body is a DoctorAvailabilityCreateSchema or a              *)
(* DoctorBlockedTimeCreateSchema. The response keeps the request's id and    *)
(* range next to the status.                                                 *)

AvailabilityBody(doc_number, day_of_week, start_time, end_time, duration) ==
    [doctor_document_number |-> doc_number, day_of_week |-> day_of_week,
     start_time |-> start_time, end_time |-> end_time,
     appointment_duration |-> duration]

AvailabilityBodies ==
    { AvailabilityBody("D1", Monday, T(9, 0), T(11, 0), 2),
      AvailabilityBody("D1", Tuesday, T(10, 0), T(11, 45), 3),
      AvailabilityBody("D1", Monday, T(9, 0), T(9, 0), 2),
      AvailabilityBody("D1", Monday, T(9, 0), T(11, 0), 0) }

BlockedBody(doc_number, start_datetime, end_datetime) ==
    [doctor_document_number |-> doc_number,
     start_datetime |-> start_datetime, end_datetime |-> end_datetime]

BlockedBodies ==
    { BlockedBody("D1", Combine(0, T(9, 30)), Combine(0, T(10, 0))),
      BlockedBody("D2", Combine(0, T(23, 30)), Combine(1, T(0, 30))),
      BlockedBody("D1", Combine(1, T(9, 0)), Combine(0, T(10, 0))) }

\* the schema bounds only the weekday
AvailabilitySchemaWeekdayOnly(body) == body.day_of_week \in 0..6

\* DoctorAvailabilityCreateSchema: day_of_week ge=0 le=6,
\* appointment_duration_minutes ge=15 le=480 (1 to 32 ticks)
AvailabilitySchemaValid(body) ==
    /\ body.day_of_week \in 0..6
    /\ body.appointment_duration >= 1
    /\ body.appointment_duration <= 32

\* the request is refused only when start lies after end
StartAfterEnd(start, end) == start > end

\* if start_time >= end_time: raise HTTPException(400)
StartNotBeforeEnd(start, end) == start >= end

\* the row is selected by its id alone
AvailabilityOfAnyTenant(availability_id, tenant_id) ==
    {w \in availabilities : w.id = availability_id}

\* the row the id and the caller's tenant select
AvailabilityOfTenant(availability_id, tenant_id) ==
    {w \in availabilities : w.id = availability_id /\ w.tenant_id = tenant_id}

BlockedTimeOfTenant(blocked_time_id, tenant_id) ==
    {b \in blocked_times : b.id = blocked_time_id /\ b.tenant_id = tenant_id}

\* the response of a window or blocked-interval request
WriteResponse(op, tenant_id, id, start, end, status) ==
    [NoResponse EXCEPT !.op = op, !.tenant_id = tenant_id, !.id = id,
                       !.start_datetime = start, !.end_datetime = end,
                       !.status = status]

InitAvailability ==
    /\ availabilities = {}
    /\ blocked_times = {}
    /\ appointments = {}
    /\ next_id = [availability |-> 1, blocked_time |-> 1, appointment |-> 1]
    /\ created = {}
    /\ patch = IdleProcs
    /\ resp = NoResponse
    /\ InitAccounts

\* POST /doctor-availability/availability
create_doctor_availability(tenant_id, body) ==
    /\ next_id.availability <= MaxWindows
    /\ IF ~AvailabilitySchemaValid(body)
       THEN /\ resp' = WriteResponse("create_doctor_availability", tenant_id, 0,
                                     body.start_time, body.end_time, 422)
            /\ UNCHANGED <<availabilities, next_id>>
       ELSE IF StartNotBeforeEnd(body.start_time, body.end_time)
       THEN /\ resp' = WriteResponse("create_doctor_availability", tenant_id, 0,
                                     body.start_time, body.end_time, 400)
            /\ UNCHANGED <<availabilities, next_id>>
       ELSE /\ availabilities' = availabilities \cup
                  {[id |-> next_id.availability] @@
                   Window(tenant_id, body.doctor_document_number, body.day_of_week,
                          body.start_time, body.end_time, body.appointment_duration, TRUE)}
            /\ next_id' = [next_id EXCEPT !.availability = @ + 1]
            /\ resp' = WriteResponse("create_doctor_availability", tenant_id,
                                     next_id.availability,
                                     body.start_time, body.end_time, 201)
    /\ UNCHANGED <<blocked_times, appointments, created, patch, accounts>>

\* PATCH /doctor-availability/availability/{availability_id}
update_doctor_availability(tenant_id, availability_id, body) ==
    /\ IF ~AvailabilitySchemaValid(body)
       THEN /\ resp' = WriteResponse("update_doctor_availability", tenant_id,
                                     availability_id, body.start_time, body.end_time, 422)
            /\ UNCHANGED availabilities
       ELSE IF StartNotBeforeEnd(body.start_time, body.end_time)
       THEN /\ resp' = WriteResponse("update_doctor_availability", tenant_id,
                                     availability_id, body.start_time, body.end_time, 400)
            /\ UNCHANGED availabilities
       ELSE IF AvailabilityOfTenant(availability_id, tenant_id) = {}
       THEN /\ resp' = WriteResponse("update_doctor_availability", tenant_id,
                                     availability_id, body.start_time, body.end_time, 404)
            /\ UNCHANGED availabilities
       ELSE /\ availabilities' =
                  {IF w \in AvailabilityOfTenant(availability_id, tenant_id)
                   THEN [w EXCEPT !.doctor_document_type_id = DocType,
                                  !.doctor_document_number = body.doctor_document_number,
                                  !.day_of_week = body.day_of_week,
                                  !.start_time = body.start_time,
                                  !.end_time = body.end_time,
                                  !.appointment_duration = body.appointment_duration]
                   ELSE w : w \in availabilities}
            /\ resp' = WriteResponse("update_doctor_availability", tenant_id,
                                     availability_id, body.start_time, body.end_time, 200)
    /\ UNCHANGED <<blocked_times, appointments, next_id, created, patch, accounts>>

\* DELETE /doctor-availability/availability/{availability_id}: db.delete(row)
delete_doctor_availability(tenant_id, availability_id) ==
    /\ IF AvailabilityOfTenant(availability_id, tenant_id) = {}
       THEN /\ resp' = WriteResponse("delete_doctor_availability", tenant_id,
                                     availability_id, 0, 0, 404)
            /\ UNCHANGED availabilities
       ELSE /\ availabilities' =
                  availabilities \ AvailabilityOfTenant(availability_id, tenant_id)
            /\ resp' = WriteResponse("delete_doctor_availability", tenant_id,
                                     availability_id, 0, 0, 200)
    /\ UNCHANGED <<blocked_times, appointments, next_id, created, patch, accounts>>

\* POST /doctor-availability/blocked-time
create_blocked_time(tenant_id, body) ==
    /\ next_id.blocked_time <= MaxBlocked
    /\ IF StartNotBeforeEnd(body.start_datetime, body.end_datetime)
       THEN /\ resp' = WriteResponse("create_blocked_time", tenant_id, 0,
                                     body.start_datetime, body.end_datetime, 400)
            /\ UNCHANGED <<blocked_times, next_id>>
       ELSE /\ blocked_times' = blocked_times \cup
                  {[id |-> next_id.blocked_time] @@
                   Blocked(tenant_id, body.doctor_document_number,
                           body.start_datetime, body.end_datetime, TRUE)}
            /\ next_id' = [next_id EXCEPT !.blocked_time = @ + 1]
            /\ resp' = WriteResponse("create_blocked_time", tenant_id,
                                     next_id.blocked_time,
                                     body.start_datetime, body.end_datetime, 201)
    /\ UNCHANGED <<availabilities, appointments, created, patch, accounts>>

\* PATCH /doctor-availability/blocked-time/{blocked_time_id}
update_blocked_time(tenant_id, blocked_time_id, body) ==
    /\ IF StartNotBeforeEnd(body.start_datetime, body.end_datetime)
       THEN /\ resp' = WriteResponse("update_blocked_time", tenant_id, blocked_time_id,
                                     body.start_datetime, body.end_datetime, 400)
            /\ UNCHANGED blocked_times
       ELSE IF BlockedTimeOfTenant(blocked_time_id, tenant_id) = {}
       THEN /\ resp' = WriteResponse("update_blocked_time", tenant_id, blocked_time_id,
                                     body.start_datetime, body.end_datetime, 404)
            /\ UNCHANGED blocked_times
       ELSE /\ blocked_times' =
                  {IF b \in BlockedTimeOfTenant(blocked_time_id, tenant_id)
                   THEN [b EXCEPT !.doctor_document_type_id = DocType,
                                  !.doctor_document_number = body.doctor_document_number,
                                  !.start_datetime = body.start_datetime,
                                  !.end_datetime = body.end_datetime]
                   ELSE b : b \in blocked_times}
            /\ resp' = WriteResponse("update_blocked_time", tenant_id, blocked_time_id,
                                     body.start_datetime, body.end_datetime, 200)
    /\ UNCHANGED <<availabilities, appointments, next_id, created, patch, accounts>>

\* DELETE /doctor-availability/blocked-time/{blocked_time_id}: db.delete(row)
delete_blocked_time(tenant_id, blocked_time_id) ==
    /\ IF BlockedTimeOfTenant(blocked_time_id, tenant_id) = {}
       THEN /\ resp' = WriteResponse("delete_blocked_time", tenant_id,
                                     blocked_time_id, 0, 0, 404)
            /\ UNCHANGED blocked_times
       ELSE /\ blocked_times' =
                  blocked_times \ BlockedTimeOfTenant(blocked_time_id, tenant_id)
            /\ resp' = WriteResponse("delete_blocked_time", tenant_id,
                                     blocked_time_id, 0, 0, 200)
    /\ UNCHANGED <<availabilities, appointments, next_id, created, patch, accounts>>

NextAvailability ==
    \/ \E t \in Tenants, b \in AvailabilityBodies : create_doctor_availability(t, b)
    \/ \E t \in Tenants, id \in 1..MaxWindows, b \in AvailabilityBodies :
          update_doctor_availability(t, id, b)
    \/ \E t \in Tenants, id \in 1..MaxWindows : delete_doctor_availability(t, id)
    \/ \E t \in Tenants, b \in BlockedBodies : create_blocked_time(t, b)
    \/ \E t \in Tenants, id \in 1..MaxBlocked, b \in BlockedBodies :
          update_blocked_time(t, id, b)
    \/ \E t \in Tenants, id \in 1..MaxBlocked : delete_blocked_time(t, id)

SpecAvailability == InitAvailability /\ [][NextAvailability]_vars

-----------------------------------------------------------------------------
(* Requests as they arrive: the X-Api-Key header is resolved to a tenant by  *)
(* verify_api_key_and_get_tenant before the handler runs. The database       *)
(* session of the request is opened by get_db, which reads the tenant        *)
(* context variable; authentication, which itself depends on get_db, sets    *)
(* that variable only afterwards.                                            *)

master_api_key == "master"

\* tenant_context.get() at the time get_db runs in a request
SessionTenant == "None"

\* the rows a statement of the request's session sees under the policies
\* USING (tenant_id::text = current_setting('app.tenant_id', true))
RLSVisible(rows) ==
    IF row_security THEN {r \in rows : r.tenant_id = SessionTenant} ELSE rows

\* policy of table tenant: USING (id::text = current_setting('app.tenant_id', true))
TenantsVisible ==
    IF row_security THEN {t \in tenant_rows : t.id = SessionTenant} ELSE tenant_rows

\* the key is looked up whatever its revoked_at
ApiKeyMatchesRevokedToo(k, t, api_key) ==
    /\ k.tenant_id = t.id
    /\ k.key_hash = hash_api_key(api_key)
    /\ t.is_active

\* the WHERE clause of the key lookup joined with the tenant
ApiKeyMatches(k, t, api_key) ==
    /\ k.tenant_id = t.id
    /\ k.key_hash = hash_api_key(api_key)
    /\ k.revoked_at = "None"
    /\ t.is_active

\* the TenantContext of the request, or the 401 it is refused with
verify_api_key_and_get_tenant(api_key) ==
    IF api_key = "None"
    THEN [status |-> 401, tenant_id |-> "", api_key_id |-> 0]
    ELSE IF api_key = master_api_key
    THEN [status |-> 200, tenant_id |-> "master", api_key_id |-> 0]
    ELSE LET found == {k \in RLSVisible(api_keys) :
                          \E t \in TenantsVisible : ApiKeyMatches(k, t, api_key)}
         IN  IF found = {}
             THEN [status |-> 401, tenant_id |-> "", api_key_id |-> 0]
             ELSE LET api_key_obj == CHOOSE k \in found : TRUE
                  IN  [status |-> 200, tenant_id |-> api_key_obj.tenant_id,
                       api_key_id |-> api_key_obj.id]

\* the string is taken as a tenant id whatever it holds
UUIDUnchecked(tenant_id) == tenant_id

\* UUID(current_tenant.tenant_id)
UUID(tenant_id) == IF tenant_id \in Tenants THEN tenant_id ELSE "ValueError"

\* the response of a request: who asked, for what, and the status
Response(op, api_key, tenant_id, id, status) ==
    [NoResponse EXCEPT !.op = op, !.api_key = api_key, !.tenant_id = tenant_id,
                       !.id = id, !.status = status, !.session = SessionTenant]

\* GET /doctor-availability/time-slots/..., from the header on
get_available_time_slots_endpoint(api_key, doc_number, date) ==
    LET ctx == verify_api_key_and_get_tenant(api_key)
        op  == "get_available_time_slots"
    IN  /\ IF ctx.status = 401
           THEN resp' = Response(op, api_key, "", 0, 401)
           ELSE IF UUID(ctx.tenant_id) = "ValueError"
           THEN resp' = Response(op, api_key, ctx.tenant_id, 0, 500)
           ELSE \E availability_records \in
                      OrderByStartTime(AvailabilityRows(RLSVisible(availabilities),
                                                        UUID(ctx.tenant_id), DocType, doc_number,
                                                        Weekday(Combine(date, 0)))) :
                    resp' = [TimeSlotsResponse(UUID(ctx.tenant_id), doc_number, date,
                                               availability_records)
                               EXCEPT !.api_key = api_key, !.status = 200,
                                      !.session = SessionTenant]
        /\ UNCHANGED <<availabilities, blocked_times, appointments, next_id, created, patch, accounts>>

\* GET /doctor-availability/check-availability/..., from the header on
check_time_availability_endpoint(api_key, doc_number, start_dt, end_dt) ==
    LET ctx == verify_api_key_and_get_tenant(api_key)
        op  == "is_time_available"
    IN  /\ IF ctx.status = 401
           THEN resp' = Response(op, api_key, "", 0, 401)
           ELSE IF UUID(ctx.tenant_id) = "ValueError"
           THEN resp' = Response(op, api_key, ctx.tenant_id, 0, 500)
           ELSE LET body == CheckResponse(UUID(ctx.tenant_id), doc_number, start_dt, end_dt)
                IN  IF body.available = "MultipleResultsFound"
                    THEN resp' = Response(op, api_key, ctx.tenant_id, 0, 500)
                    ELSE resp' = [body EXCEPT !.api_key = api_key, !.status = 200,
                                              !.session = SessionTenant]
        /\ UNCHANGED <<availabilities, blocked_times, appointments, next_id, created, patch, accounts>>

\* AppointmentService.get_appointment_by_id: WHERE id = :id, nothing else
get_appointment_by_id(appointment_id) ==
    {a \in RLSVisible(appointments) : a.id = appointment_id}

\* GET /appointments/{appointment_id}
get_appointment_endpoint(api_key, appointment_id) ==
    LET ctx == verify_api_key_and_get_tenant(api_key)
        op  == "get_appointment"
    IN  /\ IF ctx.status = 401
           THEN resp' = Response(op, api_key, "", appointment_id, 401)
           ELSE IF get_appointment_by_id(appointment_id) = {}
           THEN resp' = Response(op, api_key, ctx.tenant_id, appointment_id, 404)
           ELSE resp' = Response(op, api_key, ctx.tenant_id, appointment_id, 200)
        /\ UNCHANGED <<availabilities, blocked_times, appointments, next_id, created, patch, accounts>>

\* PATCH /appointments/{appointment_id}, read and commit in one step
update_appointment_endpoint(api_key, appointment_id, update_data) ==
    LET ctx == verify_api_key_and_get_tenant(api_key)
        op  == "update_appointment"
        existing == get_appointment_by_id(appointment_id)
    IN  /\ IF ctx.status = 401
           THEN /\ resp' = Response(op, api_key, "", appointment_id, 401)
                /\ UNCHANGED appointments
           ELSE IF existing = {}
           THEN /\ resp' = Response(op, api_key, ctx.tenant_id, appointment_id, 404)
                /\ UNCHANGED appointments
           ELSE IF \E a \in existing : ~PatchBodyValid(a, update_data)
           THEN /\ resp' = Response(op, api_key, ctx.tenant_id, appointment_id, 400)
                /\ UNCHANGED appointments
           ELSE /\ appointments' =
                      {IF a \in existing
                       THEN [f \in DOMAIN a |->
                               IF f \in DOMAIN update_data THEN update_data[f] ELSE a[f]]
                       ELSE a : a \in appointments}
                /\ resp' = Response(op, api_key, ctx.tenant_id, appointment_id, 200)
        /\ UNCHANGED <<availabilities, blocked_times, next_id, created, patch, accounts>>

\* DELETE /appointments/{appointment_id}
delete_appointment_endpoint(api_key, appointment_id) ==
    LET ctx == verify_api_key_and_get_tenant(api_key)
        op  == "delete_appointment"
        existing == get_appointment_by_id(appointment_id)
    IN  /\ IF ctx.status = 401
           THEN /\ resp' = Response(op, api_key, "", appointment_id, 401)
                /\ UNCHANGED appointments
           ELSE IF existing = {}
           THEN /\ resp' = Response(op, api_key, ctx.tenant_id, appointment_id, 404)
                /\ UNCHANGED appointments
           ELSE /\ appointments' = appointments \ existing
                /\ resp' = Response(op, api_key, ctx.tenant_id, appointment_id, 200)
        /\ UNCHANGED <<availabilities, blocked_times, next_id, created, patch, accounts>>

\* POST /auth/api-keys/{api_key_id}/revoke
revoke_api_key(api_key, api_key_id) ==
    LET ctx == verify_api_key_and_get_tenant(api_key)
        op  == "revoke_api_key"
        found == {k \in RLSVisible(api_keys) : k.id = api_key_id}
    IN  /\ IF ctx.status = 401
           THEN /\ resp' = Response(op, api_key, "", api_key_id, 401)
                /\ UNCHANGED api_keys
           ELSE IF found = {}
           THEN /\ resp' = Response(op, api_key, ctx.tenant_id, api_key_id, 404)
                /\ UNCHANGED api_keys
           ELSE /\ api_keys' = {IF k \in found THEN [k EXCEPT !.revoked_at = "utcnow"] ELSE k
                                  : k \in api_keys}
                /\ resp' = Response(op, api_key, ctx.tenant_id, api_key_id, 200)
        /\ UNCHANGED <<availabilities, blocked_times, appointments, next_id, created, patch,
                       tenant_rows, row_security, patients, creating>>

\* POST /auth/api-keys
create_api_key(api_key, tenant_id) ==
    LET ctx == verify_api_key_and_get_tenant(api_key)
        op  == "create_api_key"
        n   == Cardinality(api_keys) + 1
    IN  /\ n <= MaxKeys
        /\ IF ctx.status = 401
           THEN /\ resp' = Response(op, api_key, "", 0, 401)
                /\ UNCHANGED api_keys
           ELSE IF ~\E t \in TenantsVisible : t.id = tenant_id /\ t.is_active
           THEN /\ resp' = Response(op, api_key, ctx.tenant_id, 0, 400)
                /\ UNCHANGED api_keys
           ELSE /\ api_keys' = api_keys \cup {ApiKey(n, generate_api_key(n), tenant_id)}
                /\ resp' = Response(op, api_key, ctx.tenant_id, n, 201)
        /\ UNCHANGED <<availabilities, blocked_times, appointments, next_id, created, patch,
                       tenant_rows, row_security, patients, creating>>

\* PATCH /auth/tenants/{tenant_id} with is_active in the body
update_tenant(api_key, tenant_id, is_active) ==
    LET ctx == verify_api_key_and_get_tenant(api_key)
        op  == "update_tenant"
        found == {t \in TenantsVisible : t.id = tenant_id}
    IN  /\ IF ctx.status = 401
           THEN /\ resp' = Response(op, api_key, "", 0, 401)
                /\ UNCHANGED tenant_rows
           ELSE IF found = {}
           THEN /\ resp' = Response(op, api_key, ctx.tenant_id, 0, 404)
                /\ UNCHANGED tenant_rows
           ELSE /\ tenant_rows' = {IF t \in found THEN [t EXCEPT !.is_active = is_active] ELSE t
                                     : t \in tenant_rows}
                /\ resp' = Response(op, api_key, ctx.tenant_id, 0, 200)
        /\ UNCHANGED <<availabilities, blocked_times, appointments, next_id, created, patch,
                       api_keys, row_security, patients, creating>>

\* the X-Api-Key headers requests come with: none, the master key, and every
\* key handed out so far or later
ApiKeysPresented ==
    {"None", master_api_key} \cup {generate_api_key(n) : n \in 1..MaxKeys}

AuthApptChoices ==
    << Appt("tA", "D1", Combine(0, T(9, 0)), Combine(0, T(9, 30)), SCHEDULED),
       Appt("tB", "D1", Combine(0, T(10, 0)), Combine(0, T(10, 30)), SCHEDULED) >>

AuthPatchBodies == {[start_utc |-> Combine(0, T(9, 15))]}

InitAuth ==
    /\ availabilities = Rows(BookingWindowChoices, [i \in {1} |-> 1])
    /\ blocked_times = Rows(BookingBlockedChoices, [i \in {1} |-> 1])
    /\ appointments = Rows(AuthApptChoices, [i \in {1, 2} |-> i])
    /\ next_id = [availability |-> 2, blocked_time |-> 2, appointment |-> 3]
    /\ created = {}
    /\ patch = IdleProcs
    /\ resp = NoResponse
    /\ api_keys = {ApiKey(1, generate_api_key(1), "tA"), ApiKey(2, generate_api_key(2), "tB")}
    /\ tenant_rows = {[id |-> t, is_active |-> TRUE] : t \in Tenants}
    /\ row_security \in BOOLEAN
    /\ patients = {}
    /\ creating = IdleCreators

NextAuth ==
    \/ \E k \in ApiKeysPresented : get_available_time_slots_endpoint(k, "D1", 0)
    \/ \E k \in ApiKeysPresented :
          check_time_availability_endpoint(k, "D1", Combine(0, T(9, 0)), Combine(0, T(9, 30)))
    \/ \E k \in ApiKeysPresented, id \in 1..2 : get_appointment_endpoint(k, id)
    \/ \E k \in ApiKeysPresented, id \in 1..2, u \in AuthPatchBodies :
          update_appointment_endpoint(k, id, u)
    \/ \E k \in ApiKeysPresented, id \in 1..2 : delete_appointment_endpoint(k, id)
    \/ \E k \in ApiKeysPresented, id \in 1..MaxKeys : revoke_api_key(k, id)
    \/ \E k \in ApiKeysPresented, t \in Tenants : create_api_key(k, t)
    \/ \E k \in ApiKeysPresented, t \in Tenants, b \in BOOLEAN : update_tenant(k, t, b)

SpecAuth == InitAuth /\ [][NextAuth]_vars

-----------------------------------------------------------------------------
(* Properties of the availability queries, checked under SpecQuery *)

IsSlotsResp == resp.op = "get_available_time_slots"
IsCheckResp == resp.op = "is_time_available"

OwnedBy(rows, tenant_id) == {r \in rows : r.tenant_id = tenant_id}

\* the rows of the doctor the last query asked about
OfQueriedDoctor(rows) ==
    {r \in rows : /\ r.tenant_id = resp.tenant_id
                  /\ r.doctor_document_type_id = DocType
                  /\ r.doctor_document_number = resp.doctor_document_number}

\* r strictly overlaps [s, e): they share more than an endpoint
BlockedCuts(b, s, e) == b.start_datetime < e /\ b.end_datetime > s
ApptCuts(a, s, e) == a.start_utc < e /\ a.end_utc > s

ActiveBlockedOfDoctor == {b \in OfQueriedDoctor(blocked_times) : b.is_active}
OccupyingOfDoctor == {a \in OfQueriedDoctor(appointments) : a.state_id # CANCELLED}

\* C4: tenant isolation. The answer to a query of tenant A is the answer the
\* same query gets from the store with every row of the other tenants removed;
\* so two stores that agree on A's rows and differ only in rows of tenant B
\* give A identical slots and identical is_time_available results.
C4_TenantIsolation ==
    LET t   == resp.tenant_id
        avs == OwnedBy(availabilities, t)
        bts == OwnedBy(blocked_times, t)
        aps == OwnedBy(appointments, t)
        rows == AvailabilityRows(avs, t, DocType, resp.doctor_document_number,
                                 Weekday(Combine(resp.date, 0)))
    IN  /\ IsSlotsResp =>
              /\ resp.availability_records \in OrderByStartTime(rows)
              /\ resp.time_slots =
                    IF rows = {} THEN << >>
                    ELSE SlotsFor(resp.availability_records, bts, aps, t, DocType,
                                  resp.doctor_document_number, resp.date)
        /\ IsCheckResp =>
              resp.available =
                  IsTimeAvailable(avs, bts, aps, t, DocType, resp.doctor_document_number,
                                  resp.start_datetime, resp.end_datetime)

\* tenant A is told a slot is free that a blocked interval of tenant B, stored
\* for the same doctor document, covers
C4_Witness ==
    /\ IsSlotsResp
    /\ resp.tenant_id = "tA"
    /\ \E i \in DOMAIN resp.time_slots :
          /\ resp.time_slots[i].available
          /\ \E b \in blocked_times :
                /\ b.tenant_id = "tB"
                /\ b.doctor_document_number = resp.doctor_document_number
                /\ b.is_active
                /\ BlockedCuts(b, resp.time_slots[i].start_datetime,
                               resp.time_slots[i].end_datetime)

\* C5: a slot is flagged available exactly when no active blocked interval and
\* no booked (non-cancelled) appointment of the tenant and doctor overlaps it.
C5_AvailableIffNothingOverlaps ==
    IsSlotsResp =>
        \A i \in DOMAIN resp.time_slots :
            LET s == resp.time_slots[i]
            IN  s.available <=>
                  /\ ~\E b \in ActiveBlockedOfDoctor :
                         BlockedCuts(b, s.start_datetime, s.end_datetime)
                  /\ ~\E a \in OccupyingOfDoctor :
                         ApptCuts(a, s.start_datetime, s.end_datetime)

\* C6: rows that only touch a slot or a requested range at an endpoint never
\* exclude it. A slot no stored blocked interval or appointment of the doctor
\* strictly overlaps is flagged available, and a range inside the doctor's one
\* window of that weekday that nothing strictly overlaps is reported available.
C6_TouchingNeverExcludes ==
    /\ IsSlotsResp =>
          \A i \in DOMAIN resp.time_slots :
              LET s == resp.time_slots[i]
              IN  (/\ ~\E b \in ActiveBlockedOfDoctor :
                          BlockedCuts(b, s.start_datetime, s.end_datetime)
                   /\ ~\E a \in OfQueriedDoctor(appointments) :
                          ApptCuts(a, s.start_datetime, s.end_datetime))
                  => s.available
    /\ IsCheckResp =>
          LET rows == {w \in OfQueriedDoctor(availabilities) :
                          w.is_active /\ w.day_of_week = Weekday(resp.start_datetime)}
          IN  (/\ Cardinality(rows) = 1
               /\ \A w \in rows : /\ w.start_time <= TimeOf(resp.start_datetime)
                                  /\ TimeOf(resp.end_datetime) <= w.end_time
               /\ ~\E b \in ActiveBlockedOfDoctor :
                      BlockedCuts(b, resp.start_datetime, resp.end_datetime)
               /\ ~\E a \in OfQueriedDoctor(appointments) :
                      ApptCuts(a, resp.start_datetime, resp.end_datetime))
              => resp.available = "True"

\* a free slot with a blocked interval ending exactly at its start or starting
\* exactly at its end
C6_Witness ==
    /\ IsSlotsResp
    /\ \E i \in DOMAIN resp.time_slots :
          /\ resp.time_slots[i].available
          /\ \E b \in ActiveBlockedOfDoctor :
                \/ b.end_datetime = resp.time_slots[i].start_datetime
                \/ b.start_datetime = resp.time_slots[i].end_datetime

\* C7: the slots generated from one window with start_time < end_time lie
\* inside [start_time, end_time) of the requested date, are each exactly the
\* window's duration long, do not overlap each other and ascend by start.
C7_WindowSlotsWellFormed ==
    IsSlotsResp =>
        LET ts   == resp.time_slots
            org  == resp.slot_origin
            recs == resp.availability_records
        IN  /\ \A i \in DOMAIN ts :
                  LET w == recs[org[i]]
                  IN  w.start_time < w.end_time =>
                        /\ Combine(resp.date, w.start_time) <= ts[i].start_datetime
                        /\ ts[i].end_datetime <= Combine(resp.date, w.end_time)
                        /\ ts[i].end_datetime - ts[i].start_datetime = w.appointment_duration
            /\ \A i, j \in DOMAIN ts :
                  (i < j /\ org[i] = org[j]) =>
                      /\ ts[i].start_datetime < ts[j].start_datetime
                      /\ ts[i].end_datetime <= ts[j].start_datetime

\* slots of a window whose length is not a multiple of its duration
C7_Witness ==
    /\ IsSlotsResp
    /\ \E k \in DOMAIN resp.availability_records :
          LET w == resp.availability_records[k]
          IN  /\ (w.end_time - w.start_time) % w.appointment_duration # 0
              /\ Cardinality({i \in DOMAIN resp.time_slots : resp.slot_origin[i] = k}) >= 2

SlotCount(w) == (w.end_time - w.start_time) \div w.appointment_duration

\* C8: each loaded window contributes exactly floor((end - start) / duration)
\* slots, the m-th of them starting at start_time + (m-1) * duration; the
\* remainder is dropped; the slots of the windows follow each other in window
\* order, none merged or removed; one 09:00-11:00 window of 30 minutes gives
\* the four slots 09:00, 09:30, 10:00, 10:30.
C8_SlotCountAndStarts ==
    IsSlotsResp =>
        LET ts   == resp.time_slots
            org  == resp.slot_origin
            recs == resp.availability_records
        IN  /\ \A k \in DOMAIN recs :
                  Cardinality({i \in DOMAIN ts : org[i] = k}) = SlotCount(recs[k])
            /\ \A i \in DOMAIN ts :
                  /\ org[i] \in DOMAIN recs
                  /\ ts[i].start_datetime =
                        Combine(resp.date, recs[org[i]].start_time)
                        + recs[org[i]].appointment_duration
                          * Cardinality({j \in 1..(i-1) : org[j] = org[i]})
            /\ \A i, j \in DOMAIN ts : i < j => org[i] <= org[j]
            /\ (/\ Len(recs) = 1
                /\ recs[1].start_time = T(9, 0)
                /\ recs[1].end_time = T(11, 0)
                /\ recs[1].appointment_duration = 2)
               => [i \in DOMAIN ts |-> ts[i].start_datetime - Combine(resp.date, 0)]
                     = <<T(9, 0), T(9, 30), T(10, 0), T(10, 30)>>

\* two overlapping windows of one day: four slots of the first followed by two
\* of the second, whose last 15 minutes are dropped
C8_Witness ==
    /\ IsSlotsResp
    /\ Len(resp.availability_records) = 2
    /\ Len(resp.time_slots) = 6
    /\ resp.slot_origin = <<1, 1, 1, 1, 2, 2>>

\* C9: the returned slot sequence is sorted ascending by start_datetime.
C9_SlotsSortedByStart ==
    IsSlotsResp =>
        \A i, j \in DOMAIN resp.time_slots :
            i < j => resp.time_slots[i].start_datetime <= resp.time_slots[j].start_datetime

\* C10: every active blocked interval and every non-cancelled appointment of
\* the doctor that intersects the requested day makes each slot it overlaps
\* unavailable.
C10_DayIntersectingRowsExclude ==
    IsSlotsResp =>
        LET start_of_day == Combine(resp.date, 0)
            end_of_day   == start_of_day + TicksPerDay
        IN  \A i \in DOMAIN resp.time_slots :
                LET s == resp.time_slots[i]
                IN  /\ \A b \in ActiveBlockedOfDoctor :
                          (/\ BlockedCuts(b, start_of_day, end_of_day)
                           /\ BlockedCuts(b, s.start_datetime, s.end_datetime))
                          => ~s.available
                    /\ \A a \in OccupyingOfDoctor :
                          (/\ ApptCuts(a, start_of_day, end_of_day)
                           /\ ApptCuts(a, s.start_datetime, s.end_datetime))
                          => ~s.available

-----------------------------------------------------------------------------
(* Properties of is_time_available and of both queries together *)

NotCancelled(aps) == {a \in aps : a.state_id # CANCELLED}

\* C11: an appointment in the cancelled state never makes a slot unavailable
\* and never makes is_time_available return false: every slot flag and every
\* is_time_available answer is the one the same query gives on the store with
\* the cancelled appointments taken out.
C11_CancelledNeverOccupies ==
    /\ IsSlotsResp =>
          (resp.availability_records # << >> =>
              resp.time_slots =
                  SlotsFor(resp.availability_records, blocked_times,
                           NotCancelled(appointments), resp.tenant_id, DocType,
                           resp.doctor_document_number, resp.date))
    /\ IsCheckResp =>
          (resp.available = "False" =>
              IsTimeAvailable(availabilities, blocked_times, NotCancelled(appointments),
                              resp.tenant_id, DocType, resp.doctor_document_number,
                              resp.start_datetime, resp.end_datetime) = "False")

\* the active windows of the queried doctor on the weekday of the range's start
ActiveWindowsOfStart ==
    {w \in OfQueriedDoctor(availabilities) :
        w.is_active /\ w.day_of_week = Weekday(resp.start_datetime)}

\* the requested range lies inside w by time of day
ContainsRange(w) ==
    /\ w.start_time <= TimeOf(resp.start_datetime)
    /\ TimeOf(resp.end_datetime) <= w.end_time

\* nothing stored for the queried doctor overlaps the requested range
NothingOverlapsRange ==
    /\ ~\E b \in ActiveBlockedOfDoctor :
           BlockedCuts(b, resp.start_datetime, resp.end_datetime)
    /\ ~\E a \in OfQueriedDoctor(appointments) :
           ApptCuts(a, resp.start_datetime, resp.end_datetime)

\* C12: with two or more active windows on the weekday of start,
\* is_time_available returns true if any one of them contains the requested
\* range by time of day and no blocked interval or booking overlaps it; it
\* does not fail because several windows exist.
C12_AnyWindowSuffices ==
    (/\ IsCheckResp
     /\ Cardinality(ActiveWindowsOfStart) >= 2
     /\ \E w \in ActiveWindowsOfStart : ContainsRange(w)
     /\ NothingOverlapsRange)
    => resp.available = "True"

\* C13: with exactly one active window on the weekday of start, nothing
\* overlapping the range and start < end, is_time_available returns true if and
\* only if window.start_time <= start.time() and end.time() <= window.end_time;
\* for a Monday 09:00-11:00 window, 09:00-09:30 of that Monday is true and
\* 08:30-09:00 is false.
C13_SingleWindowContainment ==
    (/\ IsCheckResp
     /\ Cardinality(ActiveWindowsOfStart) = 1
     /\ NothingOverlapsRange
     /\ resp.start_datetime < resp.end_datetime)
    => /\ resp.available \in {"True", "False"}
       /\ resp.available = "True" <=> \A w \in ActiveWindowsOfStart : ContainsRange(w)
       /\ (\A w \in ActiveWindowsOfStart :
              w.start_time = T(9, 0) /\ w.end_time = T(11, 0) /\ w.day_of_week = Monday)
          => /\ (/\ resp.start_datetime = Combine(0, T(9, 0))
                 /\ resp.end_datetime = Combine(0, T(9, 30)))
                => resp.available = "True"
             /\ (/\ resp.start_datetime = Combine(0, T(8, 30))
                 /\ resp.end_datetime = Combine(0, T(9, 0)))
                => resp.available = "False"

\* the range 08:30-09:00, ending where the only window 09:00-11:00 starts, is
\* refused although nothing overlaps it
C13_Witness ==
    /\ IsCheckResp
    /\ Cardinality(ActiveWindowsOfStart) = 1
    /\ NothingOverlapsRange
    /\ resp.start_datetime = Combine(0, T(8, 30))
    /\ resp.end_datetime = Combine(0, T(9, 0))
    /\ \A w \in ActiveWindowsOfStart : w.start_time = T(9, 0) /\ w.end_time = T(11, 0)
    /\ resp.available = "False"

\* C14: is_time_available returns false whenever at least one active blocked
\* interval or at least one non-cancelled appointment of the same tenant and
\* doctor overlaps [start, end), for any number of overlapping records; the
\* outcome is the value false, never an error caused by several records
\* matching. (Stated for a doctor with at most one active window on the
\* weekday, where the window lookup itself cannot fail.)
C14_OverlapMeansFalse ==
    (/\ IsCheckResp
     /\ Cardinality(ActiveWindowsOfStart) <= 1
     /\ \/ \E b \in ActiveBlockedOfDoctor :
              BlockedCuts(b, resp.start_datetime, resp.end_datetime)
        \/ \E a \in OccupyingOfDoctor :
              ApptCuts(a, resp.start_datetime, resp.end_datetime))
    => resp.available = "False"

\* C15: is_time_available called with a malformed range, start >= end, returns
\* false, never true.
C15_MalformedRangeIsFalse ==
    (IsCheckResp /\ resp.start_datetime >= resp.end_datetime)
    => resp.available # "True"

\* C16: when the doctor has no active window on the weekday in question,
\* get_available_time_slots returns the empty sequence and is_time_available
\* returns false, whatever blocked intervals and appointments are stored.
C16_NoWindowNothingOffered ==
    /\ (/\ IsSlotsResp
        /\ ~\E w \in OfQueriedDoctor(availabilities) :
               w.is_active /\ w.day_of_week = Weekday(Combine(resp.date, 0)))
       => resp.time_slots = << >>
    /\ (IsCheckResp /\ ActiveWindowsOfStart = {})
       => resp.available = "False"

\* the doctor's only window of the weekday is inactive and rows of the doctor
\* are stored; the slot list is empty
C16_Witness ==
    /\ IsSlotsResp
    /\ resp.time_slots = << >>
    /\ \E w \in OfQueriedDoctor(availabilities) :
          ~w.is_active /\ w.day_of_week = Weekday(Combine(resp.date, 0))
    /\ ~\E w \in OfQueriedDoctor(availabilities) :
          w.is_active /\ w.day_of_week = Weekday(Combine(resp.date, 0))
    /\ OfQueriedDoctor(blocked_times) # {}
    /\ OfQueriedDoctor(appointments) # {}

\* C17: idempotence. A call of get_available_time_slots that follows a call
\* with the same tenant, doctor and date, with no change to the stored windows,
\* blocked intervals and appointments in between, returns the identical
\* sequence: same slots, same order, same flags.
C17_SlotsIdempotent ==
    [][(/\ IsSlotsResp
        /\ resp'.op = "get_available_time_slots"
        /\ resp'.tenant_id = resp.tenant_id
        /\ resp'.doctor_document_number = resp.doctor_document_number
        /\ resp'.date = resp.date
        /\ UNCHANGED <<availabilities, blocked_times, appointments>>)
       => resp'.time_slots = resp.time_slots]_vars

\* C18: get_available_time_slots and is_time_available are read-only: a step of
\* either query leaves the stored windows, blocked intervals and appointments
\* unchanged, for every input and every outcome.
C18_QueriesReadOnly ==
    [][resp'.op \in {"get_available_time_slots", "is_time_available"}
       => UNCHANGED <<availabilities, blocked_times, appointments>>]_vars

\* a check that answered true or ended with an error, on a store that holds
\* rows of all three kinds
C18_Witness ==
    /\ IsCheckResp
    /\ resp.available \in {"True", "MultipleResultsFound"}
    /\ Cardinality(availabilities) = MaxWindows
    /\ blocked_times # {}
    /\ appointments # {}

\* C19: the overlap predicate is symmetric, overlaps(A, B) = overlaps(B, A),
\* and an interval with start < end overlaps itself.
C19_OverlapSymmetricReflexive ==
    resp.op = "overlaps" =>
        /\ resp.overlaps = Overlaps(resp.other_start, resp.other_end,
                                    resp.start_datetime, resp.end_datetime)
        /\ (/\ resp.other_start = resp.start_datetime
            /\ resp.other_end = resp.end_datetime
            /\ resp.start_datetime < resp.end_datetime)
           => resp.overlaps

\* A ends exactly where B starts: neither overlaps the other
C19_Witness ==
    /\ resp.op = "overlaps"
    /\ resp.start_datetime < resp.end_datetime
    /\ resp.end_datetime = resp.other_start
    /\ resp.other_start < resp.other_end
    /\ ~resp.overlaps

-----------------------------------------------------------------------------
(* Properties of the window endpoints, checked under SpecAvailability *)

\* C20: a weekly window is only created, updated or soft-disabled, never
\* physically deleted: a record with the id of a stored window exists in every
\* later state, whatever operations of the availability API follow.
C20_WindowNeverDeleted ==
    [][\A w \in availabilities : \E v \in availabilities' : v.id = w.id]_vars

WriteOps ==
    {"create_doctor_availability", "update_doctor_availability",
     "create_blocked_time", "update_blocked_time"}

-----------------------------------------------------------------------------
(* Further properties of the appointment endpoints, checked under Spec *)

\* C22: in every reachable state every stored appointment satisfies
\* start_utc < end_utc, after any sequence or interleaving of create and PATCH
\* requests, two concurrent PATCH requests on one appointment included, one
\* changing only the start and the other only the end.
C22_AppointmentRangeOrdered ==
    \A a \in appointments : a.start_utc < a.end_utc

-----------------------------------------------------------------------------
(* Properties of authentication and tenancy, checked under SpecAuth *)

\* C23: a call to the availability operations that carries no tenant (no API
\* key, or the master key, whose context holds no tenant UUID) is rejected with
\* an error; the stores are unchanged and no slot or availability result is
\* returned.
C23_NoTenantRejected ==
    [][(/\ resp'.op \in {"get_available_time_slots", "is_time_available"}
        /\ resp'.api_key \in {"None", master_api_key})
       => /\ resp'.status \in {401, 500}
          /\ resp'.time_slots = << >>
          /\ resp'.availability_records = << >>
          /\ resp'.available = ""
          /\ UNCHANGED <<availabilities, blocked_times, appointments>>]_vars

\* the master key asks for the slots of a doctor who has a window and is
\* refused
C23_Witness ==
    /\ resp.op = "get_available_time_slots"
    /\ resp.api_key = master_api_key
    /\ resp.status = 500
    /\ \E w \in availabilities : w.is_active /\ w.day_of_week = Weekday(Combine(resp.date, 0))


-----------------------------------------------------------------------------
(* Further properties of the windows, checked under SpecAvailability *)

\* the iterations the while loop of get_available_time_slots runs for a row
LoopIterations(w) ==
    Len(WindowSlots(Combine(0, w.start_time), Combine(0, w.end_time),
                    w.appointment_duration, DocType, w.doctor_document_number, {}, {}))

\* C24: the slot loop terminates for every window stored through the API: the
\* step of the loop is strictly positive, the window has start_time <
\* end_time, and the loop runs at most end_time - start_time iterations
C24_SlotLoopTerminates ==
    \A w \in availabilities :
        /\ w.appointment_duration > 0
        /\ w.start_time < w.end_time
        /\ LoopIterations(w) * w.appointment_duration <= w.end_time - w.start_time

C24_Witness ==
    /\ resp.op = "update_doctor_availability"
    /\ resp.status = 200
    /\ \E w \in availabilities : w.id = resp.id /\ LoopIterations(w) >= 2
    /\ \E w \in availabilities : w.appointment_duration = 3 /\ LoopIterations(w) = 2

-----------------------------------------------------------------------------
(* Further properties of authentication and tenancy, checked under SpecAuth *)

AppointmentByIdOps == {"get_appointment", "update_appointment", "delete_appointment"}

\* the tenants holding an unrevoked key with this plaintext while active
KeyHolders(api_key) ==
    {k.tenant_id : k \in {x \in api_keys :
        /\ x.key_hash = hash_api_key(api_key)
        /\ x.revoked_at = "None"
        /\ \E t \in tenant_rows : t.id = x.tenant_id /\ t.is_active}}

\* C25: a GET, PATCH or DELETE of /appointments/{id} by a tenant that does not
\* own the appointment returns 404 and leaves it unchanged, and the owning
\* tenant reads its own appointment with 200
C25_AppointmentsIsolated ==
    [][\A a \in appointments : \A t \in KeyHolders(resp'.api_key) :
          (resp'.op \in AppointmentByIdOps /\ resp'.id = a.id)
          => IF a.tenant_id = t
             THEN resp'.op = "get_appointment" => resp'.status = 200
             ELSE resp'.status = 404 /\ a \in appointments']_vars

-----------------------------------------------------------------------------
(* PatientService.create_patient. The lookup of an existing patient and the  *)
(* INSERT are two statements of one request, and another request's           *)
(* statements can run between them; the patient table has no unique          *)
(* constraint on the document columns.                                       *)

Patient(id, tenant_id, document_type_id, document_number) ==
    [id |-> id, tenant_id |-> tenant_id,
     document_type_id |-> document_type_id, document_number |-> document_number]

PatientDocuments ==
    {[document_type_id |-> 1, document_number |-> "P1"],
     [document_type_id |-> 2, document_number |-> "P1"]}

\* get_patient_by_document: WHERE document_type_id = ... AND document_number = ...
get_patient_by_document(document_type_id, document_number) ==
    LET rows == {r \in RLSVisible(patients) :
                    /\ r.document_type_id = document_type_id
                    /\ r.document_number = document_number}
    IN  ScalarOneOrNone(rows)

PatientResponse(tenant_id, id, status, field) ==
    [NoResponse EXCEPT !.op = "create_patient", !.tenant_id = tenant_id, !.id = id,
                       !.status = status, !.field = field]

\* create_patient up to the result of the lookup
create_patient_check(p, tenant_id, doc) ==
    /\ creating[p].pc = "idle"
    /\ Cardinality(patients) + Cardinality({q \in 1..NumProcs : creating[q].pc = "insert"})
          < MaxPatients
    /\ LET existing_patient ==
               get_patient_by_document(doc.document_type_id, doc.document_number)
       IN  IF existing_patient = "none"
           THEN /\ creating' = [creating EXCEPT ![p] =
                                   [pc |-> "insert", tenant_id |-> tenant_id,
                                    document_type_id |-> doc.document_type_id,
                                    document_number |-> doc.document_number]]
                /\ UNCHANGED resp
           ELSE IF existing_patient = "one"
           THEN /\ resp' = PatientResponse(tenant_id, 0, 422, "document_number")
                /\ UNCHANGED creating
           ELSE /\ resp' = PatientResponse(tenant_id, 0, 422, "")
                /\ UNCHANGED creating
    /\ UNCHANGED <<availabilities, blocked_times, appointments, next_id, created, patch,
                   api_keys, tenant_rows, row_security, patients>>

\* self.db.add(patient); await self.db.commit()
create_patient_insert(p) ==
    /\ creating[p].pc = "insert"
    /\ LET id == Cardinality(patients) + 1
       IN  /\ patients' = patients \cup
                  {Patient(id, creating[p].tenant_id, creating[p].document_type_id,
                           creating[p].document_number)}
           /\ resp' = PatientResponse(creating[p].tenant_id, id, 201, "")
    /\ creating' = [creating EXCEPT ![p] = IdleCreators[p]]
    /\ UNCHANGED <<availabilities, blocked_times, appointments, next_id, created, patch,
                   api_keys, tenant_rows, row_security>>

InitPatients ==
    /\ availabilities = {}
    /\ blocked_times = {}
    /\ appointments = {}
    /\ next_id = [availability |-> 1, blocked_time |-> 1, appointment |-> 1]
    /\ created = {}
    /\ patch = IdleProcs
    /\ resp = NoResponse
    /\ InitAccounts

NextPatients ==
    \/ \E p \in 1..NumProcs, t \in Tenants, doc \in PatientDocuments :
          create_patient_check(p, t, doc)
    \/ \E p \in 1..NumProcs : create_patient_insert(p)

SpecPatients == InitPatients /\ [][NextPatients]_vars

-----------------------------------------------------------------------------
(* Properties of patient creation, checked under SpecPatients *)

-----------------------------------------------------------------------------
(* Further properties of the availability queries, checked under SpecQuery *)

\* is_time_available asked about the i-th slot of the response, on the same store
AnswerForSlot(i) ==
    IsTimeAvailable(availabilities, blocked_times, appointments, resp.tenant_id,
                    DocType, resp.doctor_document_number,
                    resp.time_slots[i].start_datetime, resp.time_slots[i].end_datetime)

\* C28: for a doctor with exactly one active window on the weekday and with
\* the data unchanged, is_time_available(slot.start, slot.end) is true if and
\* only if the slot get_available_time_slots generated is flagged available
C28_QueriesAgreeOnSlots ==
    (IsSlotsResp /\ Len(resp.availability_records) = 1)
    => \A i \in DOMAIN resp.time_slots :
          (AnswerForSlot(i) = "True") <=> resp.time_slots[i].available

-----------------------------------------------------------------------------
(* Tenancy of the windows and blocked intervals, checked under               *)
(* SpecAvailability                                                          *)

\* the outcome of a request naming a record of another tenant: 404 from the
\* lookup, or, for a PATCH, the 422 or 400 its body earned before the lookup
RefusedAcrossTenants(update_op) ==
    /\ resp'.status \in {404, 400, 422}
    /\ resp'.status \in {400, 422} => resp'.op = update_op
    /\ resp'.status = 400 => resp'.start_datetime >= resp'.end_datetime

====
